---- MODULE Spec2Model ----
(***************************************************************************)
(* Model of SWLog (src/runtime/SWLog.cpp, the __linux__ build): the        *)
(* process-wide logger state, the file system and descriptor table it      *)
(* talks to, and the operations Init, UnInit and Log.  Log is split at the *)
(* points where other threads can interleave (before the lock, and between *)
(* the system calls made under the lock); Init and UnInit take no lock and *)
(* are single steps of the configuring thread.  Spec has several logging   *)
(* threads around one Init; SpecLife has one thread and every sequence of  *)
(* level changes, Init, UnInit and Log, on a device that may fail.         *)
(***************************************************************************)
EXTENDS Integers, Sequences, FiniteSets, TLC

(* ------------------------------ bounds --------------------------------- *)
NumThreads == 2        \* logging threads
MaxSeqCalls == 1       \* Log calls in one behaviour of the single-threaded specification
MaxLogCalls == 3       \* Log calls issued in one behaviour, all threads together
MaxFds == 2            \* size of the process's descriptor table (RLIMIT_NOFILE)
ExtraLen == 1          \* how far the message lengths next to MAX_LINE_LENGTH lie from it
LongLen == 500         \* characters in the longest message logged

(* -------------------------- program constants -------------------------- *)
MAX_LINE_LENGTH == 256

LOG_NONE == 0
LOG_ERROR == 1
LOG_WARNING == 2
LOG_INFO == 3

InvalidFd == -1

Threads == 1..NumThreads
Fds == 3..(2 + MaxFds)
Thresholds == {LOG_NONE, LOG_ERROR, LOG_WARNING, LOG_INFO}
Levels == {LOG_ERROR, LOG_WARNING, LOG_INFO}

NullName == "<nullptr>"
EmptyName == ""
LogName == "a.log"
FileNames == {LogName}
NameArgs == {NullName, EmptyName, LogName}

CRLF == "\r\n"
OldContent == <<"old", CRLF>>

(* ----------------------------- strings --------------------------------- *)
Chars == <<"a", "b", "c", "d", "e", "f", "g">>

\* The text the caller's format string and arguments expand to: n characters.
format_string(n) == [i \in 1..n |-> Chars[(i % 7) + 1]]

\* std::string::substr(0, n)
substr(s, n) == SubSeq(s, 1, IF Len(s) < n THEN Len(s) ELSE n)

IsPrefix(a, b) == Len(a) <= Len(b) /\ SubSeq(b, 1, Len(a)) = a

FirstCRLF(s) ==
    IF \E i \in 1..Len(s) : s[i] = CRLF
    THEN CHOOSE i \in 1..Len(s) : s[i] = CRLF /\ \A j \in 1..(i - 1) : s[j] # CRLF
    ELSE 0

\* The lines of a text: every piece up to and including a CRLF, and the
\* unterminated rest (if any) as the last piece.
RECURSIVE SplitLines(_)
SplitLines(s) ==
    IF s = <<>> THEN <<>>
    ELSE LET k == FirstCRLF(s)
         IN  IF k = 0 THEN <<s>>
             ELSE <<SubSeq(s, 1, k)>> \o SplitLines(SubSeq(s, k + 1, Len(s)))

(* ------------------------------ state ---------------------------------- *)
VARIABLES
    m_bToFile, m_bTruncateLongLog, m_iLogFile, m_nLogLevel,  \* SWLog statics
    mut,            \* owner of the mutex: 0 when free, else the thread
    dirExists,      \* <cwd>/Log/ exists
    fileExists,     \* names of the files in <cwd>/Log/
    fileData,       \* name -> contents as the file system holds them
    durable,        \* name -> contents known to be on storage (last fsync)
    fdtab,          \* descriptor -> open file description, or closed
    console,        \* what has been printed to stdout
    pc,             \* thread -> position inside Log
    frame,          \* thread -> the call's arguments, locals and result
    hist            \* bookkeeping about the calls made so far

vars == <<m_bToFile, m_bTruncateLongLog, m_iLogFile, m_nLogLevel, mut,
          dirExists, fileExists, fileData, durable, fdtab, console,
          pc, frame, hist>>

swlog == <<m_bToFile, m_bTruncateLongLog, m_iLogFile, m_nLogLevel>>
filesys == <<dirExists, fileExists, fileData, durable, fdtab>>

Closed == [open |-> FALSE, name |-> "", off |-> 0, append |-> FALSE]

\* A thread that is not inside Log and has not called it yet.
NoFrame == [nLevel |-> 0, nLineNo |-> 0, fmtLen |-> 0, strLogInfo |-> <<>>,
            ret |-> FALSE, wres |-> "none", sres |-> "none", emitted |-> 0]

\* The bookkeeping counts calls as none, one or several.
Count(n) == IF n < 2 THEN n + 1 ELSE n

OpenFds == {fd \in Fds : fdtab[fd].open}
FreeFds == Fds \ OpenFds
Quiescent == \A t \in Threads : pc[t] = "idle"

Init ==
    /\ m_bToFile = FALSE
    /\ m_bTruncateLongLog = FALSE
    /\ m_iLogFile = InvalidFd
    /\ m_nLogLevel = LOG_NONE
    /\ mut = 0
    /\ dirExists \in BOOLEAN
    /\ fileExists = (IF dirExists THEN FileNames ELSE {})
    /\ fileData = [n \in FileNames |-> IF n \in fileExists THEN OldContent ELSE <<>>]
    /\ durable = fileData
    /\ fdtab = [fd \in Fds |-> Closed]
    /\ console = <<>>
    /\ pc = [t \in Threads |-> "idle"]
    /\ frame = [t \in Threads |-> NoFrame]
    /\ hist = [nLog |-> 0, shutSince |-> 0,
               initToFile |-> FALSE, initName |-> NullName, initRet |-> "none",
               orig |-> fileData, sent |-> {}, locked |-> <<>>]

(* --------------------------- the level field --------------------------- *)
\* SWLog::m_nLogLevel is assigned directly by the application.
SetLevel(l) ==
    /\ Quiescent
    /\ l # m_nLogLevel
    /\ m_nLogLevel' = l
    /\ UNCHANGED <<m_bToFile, m_bTruncateLongLog, m_iLogFile, mut, filesys,
                   console, pc, frame, hist>>

(* ------------------------------- Init ---------------------------------- *)
\* Faulty variant: the file is opened without O_APPEND.
OpenFlags_NoAppend == {"O_CREAT", "O_RDWR"}

\* open(2) flags of the log file
OpenFlags == {"O_CREAT", "O_APPEND", "O_RDWR"}

\* The descriptor open(<cwd>/Log/<name>, OpenFlags) returns once the directory
\* has been looked at: -1 when the path is the directory itself (EISDIR: the
\* empty name), when the file is absent and O_CREAT is not given (ENOENT), or
\* when the descriptor table is full (EMFILE); else the lowest free descriptor.
OpenResult(name) ==
    IF name = EmptyName THEN InvalidFd
    ELSE IF name \notin fileExists /\ "O_CREAT" \notin OpenFlags THEN InvalidFd
    ELSE IF FreeFds = {} THEN InvalidFd
    ELSE CHOOSE fd \in FreeFds : \A g \in FreeFds : fd <= g

\* Faulty variant: the name is tested whatever the destination.
MissingFileName_AnyDest(bToFile, name) == name = NullName

\* bToFile == true && c_cLogFileName == nullptr
MissingFileName(bToFile, name) == bToFile /\ name = NullName

SWLogInit(bToFile, bTruncateLongLog, name) ==
    /\ Quiescent
    /\ m_bToFile' = bToFile
    /\ m_bTruncateLongLog' = bTruncateLongLog
    /\ IF MissingFileName(bToFile, name)
       THEN /\ UNCHANGED <<m_iLogFile, filesys>>
            /\ hist' = [hist EXCEPT !.shutSince = 0,
                                    !.initToFile = bToFile, !.initName = name,
                                    !.initRet = "false"]
       ELSE IF bToFile = FALSE
       THEN /\ UNCHANGED <<m_iLogFile, filesys>>
            /\ hist' = [hist EXCEPT !.shutSince = 0,
                                    !.initToFile = bToFile, !.initName = name,
                                    !.initRet = "true"]
       ELSE LET fd == OpenResult(name)
            IN  /\ dirExists' = TRUE
                /\ m_iLogFile' = fd
                /\ IF fd = InvalidFd
                   THEN UNCHANGED <<fileExists, fileData, durable, fdtab>>
                   ELSE /\ fileExists' = fileExists \cup {name}
                        /\ fdtab' = [fdtab EXCEPT ![fd] =
                                       [open |-> TRUE, name |-> name, off |-> 0,
                                        append |-> "O_APPEND" \in OpenFlags]]
                        /\ UNCHANGED <<fileData, durable>>
                /\ hist' = [hist EXCEPT !.shutSince = 0,
                                        !.initToFile = bToFile, !.initName = name,
                                        !.initRet = IF fd = InvalidFd THEN "false" ELSE "true"]
    /\ UNCHANGED <<m_nLogLevel, mut, console, pc, frame>>

(* ------------------------------ UnInit --------------------------------- *)
\* Faulty variant: the closed handle is not reset.
UnInitHandle_Kept(h) == h

\* The handle UnInit leaves behind.
UnInitHandle(h) == InvalidFd

\* UnInit on a logger whose handle is h, with descriptor table tab and c
\* close() calls made so far: the handle, table and count it leaves.
UnInitNext(h, tab, c) ==
    IF h # InvalidFd
    THEN [handle |-> UnInitHandle(h),
          tab |-> [tab EXCEPT ![h] = Closed],
          closes |-> c + 1]
    ELSE [handle |-> h, tab |-> tab, closes |-> c]

\* Faulty variant: UnInit turns the destination back to the console.
UnInitDest_Console(bToFile) == FALSE

\* The destination UnInit leaves behind: m_bToFile is not assigned.
UnInitDest(bToFile) == bToFile

UnInit ==
    /\ LET n == UnInitNext(m_iLogFile, fdtab, 0)
       IN  /\ m_iLogFile' = n.handle
           /\ fdtab' = n.tab
    /\ m_bToFile' = UnInitDest(m_bToFile)
    /\ hist' = [hist EXCEPT !.shutSince = Count(@)]
    /\ UNCHANGED <<m_bTruncateLongLog, m_nLogLevel, mut, dirExists,
                   fileExists, fileData, durable, console, pc, frame>>

(* -------------------------------- Log ---------------------------------- *)
\* Faulty variant: the filter drops only the levels strictly below the threshold.
LevelFiltered_Strict(nLevel, threshold) == nLevel < threshold

\* Faulty variant: the threshold LOG_NONE drops every call.
LevelFiltered_NoneAll(nLevel, threshold) ==
    nLevel <= threshold \/ threshold = LOG_NONE

\* nLevel <= m_nLogLevel: the call is dropped
LevelFiltered(nLevel, threshold) == nLevel <= threshold

Label(nLevel) ==
    IF nLevel = LOG_INFO THEN "[INFO]"
    ELSE IF nLevel = LOG_WARNING THEN "[WARNING]"
    ELSE IF nLevel = LOG_ERROR THEN "[ERROR]"
    ELSE ""

\* The timestamp text; the clock is not part of the model.
GetLogTime == "[time]"

\* "<time> <tag> [ThreadID: <id>] [<file> Line: <line>] [Function: <name>] Message: "
Header(nLevel, tid, nLineNo) ==
    <<GetLogTime, Label(nLevel), "[ThreadID: ", ToString(tid),
      "] [main.cpp Line: ", ToString(nLineNo), "] [Function: main] Message: ">>

\* Faulty variant: the body is never clipped.
Body_NoClip(strLogMsg, bTruncate) == strLogMsg

\* The message body as it goes into the line.
Body(strLogMsg, bTruncate) ==
    IF bTruncate THEN substr(strLogMsg, MAX_LINE_LENGTH) ELSE strLogMsg

\* Faulty variant: the line terminator is not appended.
FormatLine_NoCRLF(nLevel, tid, nLineNo, fmtLen, bTruncate) ==
    Header(nLevel, tid, nLineNo) \o Body(format_string(fmtLen), bTruncate)

\* strLogInfo as it stands after line 215
FormatLine(nLevel, tid, nLineNo, fmtLen, bTruncate) ==
    Header(nLevel, tid, nLineNo) \o Body(format_string(fmtLen), bTruncate) \o <<CRLF>>

\* What write(fd, buf) leaves in a file holding data, for a descriptor whose
\* offset is off: with O_APPEND the offset is moved to the end first.
WriteAt(data, off, append, buf) ==
    LET pos == IF append THEN Len(data) ELSE off
    IN  SubSeq(data, 1, pos) \o buf \o SubSeq(data, pos + Len(buf) + 1, Len(data))

\* Faulty variant: the handle is not tested before it is used.
HandleInvalid_Never(h) == FALSE

\* m_iLogFile == -1: the file destination has no handle
HandleInvalid(h) == h = InvalidFd

\* The number of lines of a text, Len(SplitLines(s)): its CRLFs, and one more
\* for an unterminated rest.
NumLines(s) ==
    Cardinality({i \in DOMAIN s : s[i] = CRLF})
    + (IF s # <<>> /\ s[Len(s)] # CRLF THEN 1 ELSE 0)

\* The number of lines by which a sink grew from old to new.
Grown(old, new) == NumLines(new) - NumLines(old)

\* Lines 176-241: the filter, the formatting and the test of the handle.
\* Every call comes from a source line of its own: nLineNo is the call's number.
LogBegin(t, nLevel, fmtLen) ==
    /\ pc[t] = "idle"
    /\ hist.nLog < MaxLogCalls
    /\ LET n == hist.nLog + 1
           f == [NoFrame EXCEPT !.nLevel = nLevel, !.nLineNo = n, !.fmtLen = fmtLen]
       IN  IF LevelFiltered(nLevel, m_nLogLevel)
           THEN /\ frame' = [frame EXCEPT ![t] = f]
                /\ pc' = [pc EXCEPT ![t] = "ret"]
           ELSE LET g == [f EXCEPT !.strLogInfo = FormatLine(nLevel, t, n, fmtLen,
                                                             m_bTruncateLongLog)]
                IN  /\ frame' = [frame EXCEPT ![t] = g]
                    /\ pc' = [pc EXCEPT ![t] =
                                IF m_bToFile
                                THEN IF HandleInvalid(m_iLogFile) THEN "ret" ELSE "lockF"
                                ELSE "lockC"]
    /\ hist' = [hist EXCEPT !.nLog = @ + 1]
    /\ UNCHANGED <<swlog, mut, filesys, console>>

\* Faulty variant: the mutex is taken whether or not another thread holds it.
LockFree_Always(m) == TRUE

\* std::mutex::lock goes through when no thread owns the mutex
LockFree(m) == m = 0

\* std::lock_guard<std::mutex> mtxLocker(mut), lines 243 and 252
LogLock(t) ==
    /\ pc[t] \in {"lockF", "lockC"}
    /\ LockFree(mut)
    /\ mut' = t
    /\ pc' = [pc EXCEPT ![t] = IF pc[t] = "lockF" THEN "seek" ELSE "print"]
    /\ hist' = [hist EXCEPT !.locked = Append(@, frame[t].strLogInfo)]
    /\ UNCHANGED <<swlog, filesys, console, frame>>

\* Faulty variant: the mutex stays with its owner at the end of the block.
Unlock_Held(m) == m

\* The end of the lock_guard's scope: the mutex is free again.
Unlock(m) == 0

\* lseek(m_iLogFile, 0, SEEK_SET)
LogSeek(t) ==
    /\ pc[t] = "seek"
    /\ fdtab' = IF m_iLogFile \in OpenFds
                THEN [fdtab EXCEPT ![m_iLogFile].off = 0]
                ELSE fdtab
    /\ pc' = [pc EXCEPT ![t] = "write"]
    /\ UNCHANGED <<swlog, mut, dirExists, fileExists, fileData, durable, console,
                   frame, hist>>

\* write(m_iLogFile, strLogInfo.c_str(), strLogInfo.length()); the result is
\* stored in `size` and not looked at.  res is what the device does with a
\* write to an open descriptor: "ok", or "EIO" (nothing is written).
LogWrite(t, res) ==
    /\ pc[t] = "write"
    /\ pc' = [pc EXCEPT ![t] = "sync"]
    /\ IF m_iLogFile \notin OpenFds
       THEN /\ res = "ok"
            /\ frame' = [frame EXCEPT ![t].wres = "EBADF"]
            /\ UNCHANGED <<fileData, fdtab>>
       ELSE IF res = "ok"
       THEN LET d == fdtab[m_iLogFile]
                new == WriteAt(fileData[d.name], d.off, d.append, frame[t].strLogInfo)
            IN  /\ fileData' = [fileData EXCEPT ![d.name] = new]
                /\ fdtab' = [fdtab EXCEPT ![m_iLogFile].off =
                               (IF d.append THEN Len(fileData[d.name]) ELSE d.off)
                               + Len(frame[t].strLogInfo)]
                /\ frame' = [frame EXCEPT ![t].wres = "ok",
                                          ![t].emitted = @ + Grown(fileData[d.name], new)]
       ELSE /\ frame' = [frame EXCEPT ![t].wres = res]
            /\ UNCHANGED <<fileData, fdtab>>
    /\ UNCHANGED <<swlog, mut, dirExists, fileExists, durable, console, hist>>

\* fsync(m_iLogFile), the end of the locked block, and `return true`.  res is
\* what the device does with the sync: "ok", or "EIO" (nothing reaches storage).
LogSync(t, res) ==
    /\ pc[t] = "sync"
    /\ pc' = [pc EXCEPT ![t] = "ret"]
    /\ mut' = Unlock(mut)
    /\ IF m_iLogFile \notin OpenFds
       THEN /\ res = "ok"
            /\ frame' = [frame EXCEPT ![t].ret = TRUE, ![t].sres = "EBADF"]
            /\ UNCHANGED durable
       ELSE IF res = "ok"
       THEN /\ durable' = [durable EXCEPT ![fdtab[m_iLogFile].name] =
                              fileData[fdtab[m_iLogFile].name]]
            /\ frame' = [frame EXCEPT ![t].ret = TRUE, ![t].sres = "ok"]
       ELSE /\ frame' = [frame EXCEPT ![t].ret = TRUE, ![t].sres = res]
            /\ UNCHANGED durable
    /\ hist' = [hist EXCEPT !.sent = @ \cup {frame[t].strLogInfo}]
    /\ UNCHANGED <<swlog, dirExists, fileExists, fileData, fdtab, console>>

\* printf("%s", strLogInfo.c_str()), `return true`, and the lock_guard's end
LogPrint(t) ==
    /\ pc[t] = "print"
    /\ console' = console \o frame[t].strLogInfo
    /\ frame' = [frame EXCEPT ![t].ret = TRUE, ![t].wres = "ok",
                              ![t].emitted = @ + Grown(console, console')]
    /\ pc' = [pc EXCEPT ![t] = "ret"]
    /\ mut' = Unlock(mut)
    /\ UNCHANGED <<swlog, filesys, hist>>

\* The caller takes the result; the call's locals are gone.
LogEnd(t) ==
    /\ pc[t] = "ret"
    /\ pc' = [pc EXCEPT ![t] = "idle"]
    /\ frame' = [frame EXCEPT ![t] = NoFrame]
    /\ UNCHANGED <<swlog, mut, filesys, console, hist>>

(* --------------------------- specifications ---------------------------- *)
IoResults == {"ok", "EIO"}
ShortLen == 2          \* characters in the message the callers log

\* NumThreads threads log to a logger that is initialised once, to the file or
\* to the console, on a device that does not fail; UnInit may come at any time.
Next ==
    \/ \E bToFile \in BOOLEAN :
          hist.initRet = "none" /\ SWLogInit(bToFile, FALSE, LogName)
    \/ UnInit
    \/ \E t \in Threads : LogBegin(t, LOG_ERROR, ShortLen)
    \/ \E t \in Threads : LogLock(t)
    \/ \E t \in Threads : LogSeek(t)
    \/ \E t \in Threads : LogWrite(t, "ok")
    \/ \E t \in Threads : LogSync(t, "ok")
    \/ \E t \in Threads : LogPrint(t)
    \/ \E t \in Threads : LogEnd(t)

Spec == Init /\ [][Next]_vars

\* A thread inside Log goes on running: each of its steps that stays possible
\* is taken in the end.
Running(t) ==
    LogLock(t) \/ LogSeek(t) \/ LogWrite(t, "ok") \/ LogSync(t, "ok") \/ LogPrint(t)

Fairness == \A t \in Threads : WF_vars(Running(t))

MaxFairCalls == 2      \* Log calls made where the threads run fairly

\* The steps of Next, with MaxFairCalls calls in all.
NextFair ==
    \/ \E bToFile \in BOOLEAN :
          hist.initRet = "none" /\ SWLogInit(bToFile, FALSE, LogName)
    \/ UnInit
    \/ \E t \in Threads :
          hist.nLog < MaxFairCalls /\ LogBegin(t, LOG_ERROR, ShortLen)
    \/ \E t \in Threads : LogLock(t)
    \/ \E t \in Threads : LogSeek(t)
    \/ \E t \in Threads : LogWrite(t, "ok")
    \/ \E t \in Threads : LogSync(t, "ok")
    \/ \E t \in Threads : LogPrint(t)
    \/ \E t \in Threads : LogEnd(t)

SpecFair == Init /\ [][NextFair]_vars /\ Fairness

\* One thread: every sequence of level changes, Init, UnInit and Log calls,
\* with every argument, on a device that may fail.
NextLife ==
    \/ \E l \in Thresholds : SetLevel(l)
    \/ \E bToFile \in BOOLEAN, bTruncateLongLog \in BOOLEAN, name \in NameArgs :
          SWLogInit(bToFile, bTruncateLongLog, name)
    \/ UnInit
    \/ \E nLevel \in Levels :
          hist.nLog < MaxSeqCalls /\ LogBegin(1, nLevel, ShortLen)
    \/ LogLock(1)
    \/ LogSeek(1)
    \/ \E res \in IoResults : LogWrite(1, res)
    \/ \E res \in IoResults : LogSync(1, res)
    \/ LogPrint(1)
    \/ LogEnd(1)

SpecLife == Init /\ [][NextLife]_vars

\* The lengths of the messages logged where truncation is looked at.
MsgLens == {0, ShortLen, MAX_LINE_LENGTH - ExtraLen, MAX_LINE_LENGTH,
            MAX_LINE_LENGTH + ExtraLen, LongLen}

\* One thread logs messages of every length in MsgLens, at every level, to the
\* console or the file, with the truncate flag set or not.
NextTrunc ==
    \/ \E bToFile \in BOOLEAN, bTruncateLongLog \in BOOLEAN :
          SWLogInit(bToFile, bTruncateLongLog, LogName)
    \/ \E nLevel \in Levels, fmtLen \in MsgLens :
          hist.nLog < MaxSeqCalls /\ LogBegin(1, nLevel, fmtLen)
    \/ LogLock(1)
    \/ LogSeek(1)
    \/ LogWrite(1, "ok")
    \/ LogSync(1, "ok")
    \/ LogPrint(1)
    \/ LogEnd(1)

SpecTrunc == Init /\ [][NextTrunc]_vars

TypeOK ==
    /\ m_iLogFile \in Fds \cup {InvalidFd}
    /\ mut \in Threads \cup {0}
    /\ \A t \in Threads : pc[t] \in {"idle", "lockF", "lockC", "seek", "write",
                                     "sync", "print", "ret"}

(* ------------------------------ claims --------------------------------- *)
LinesOf(name) == SplitLines(fileData[name])
OrigLines(name) == SplitLines(hist.orig[name])
Range(f) == {f[i] : i \in DOMAIN f}
Returned(t) == pc[t] = "ret"
Passes(t) == frame[t].nLevel > m_nLogLevel
ConsoleLines == SplitLines(console)

\* C1: a Log call returns true only if its level is above the threshold; with a
\* usable destination (the console, or the file with a valid handle) it returns
\* true exactly if its level is above the threshold; a call that returns false
\* emits nothing, no call emits more than one line, and a call that passes the
\* filter and whose write the device accepts emits exactly one line.
C1_FilterRule ==
    \A t \in Threads :
        Returned(t) =>
            LET f == frame[t]
                usable == ~m_bToFile \/ m_iLogFile # InvalidFd
            IN  /\ f.ret => Passes(t)
                /\ usable => (f.ret <=> Passes(t))
                /\ ~f.ret => f.emitted = 0 /\ f.wres = "none"
                /\ f.emitted <= 1
                /\ (usable /\ Passes(t) /\ f.wres # "EIO") => f.emitted = 1
                /\ f.emitted = 1 =>
                      IF m_bToFile THEN f.strLogInfo \in Range(LinesOf(LogName))
                      ELSE f.strLogInfo \in Range(ConsoleLines)

\* A WARNING call has returned true from a file logger whose threshold is ERROR,
\* with its one line in the file.
C1_Witness ==
    /\ Returned(1) /\ frame[1].ret /\ frame[1].emitted = 1
    /\ frame[1].nLevel = LOG_WARNING /\ m_nLogLevel = LOG_ERROR
    /\ m_bToFile /\ m_iLogFile # InvalidFd

\* The lines the calls now between the handle test and their return carry.
InFlight == {frame[t].strLogInfo : t \in {u \in Threads : pc[u] \in {"lockF", "seek", "write", "sync"}}}

\* The lines the file has gained since the program started.
NewLines(name) == SubSeq(LinesOf(name), Len(OrigLines(name)) + 1, Len(LinesOf(name)))

\* C2: with a file logger initialised once and not shut down, on a device that
\* does not fail, the file holds what it held before, followed by whole lines
\* only: each is the complete header+body+CRLF of one call, no line occurs twice,
\* and once no call is in flight the lines are exactly those of the calls that
\* returned true, one per call: with the lines printed before Init, as many
\* lines as calls were made.
C2_WholeLines ==
    (hist.initToFile /\ hist.initRet = "true" /\ hist.shutSince = 0) =>
        LET new == NewLines(LogName)
        IN  /\ SubSeq(LinesOf(LogName), 1, Len(OrigLines(LogName))) = OrigLines(LogName)
            /\ \A i \in DOMAIN new : new[i] \in hist.sent \cup InFlight
            /\ \A i, j \in DOMAIN new : new[i] = new[j] => i = j
            /\ \A i \in DOMAIN new :
                  \E t \in Threads, n \in 1..hist.nLog :
                      new[i] = FormatLine(LOG_ERROR, t, n, ShortLen, FALSE)
            /\ hist.sent \subseteq Range(new)
            /\ InFlight = {} => /\ Range(new) = hist.sent
                                /\ Len(new) = Cardinality(hist.sent)
            /\ (\A t \in Threads : pc[t] \in {"idle", "ret"}) =>
                  Len(new) + Len(ConsoleLines) = hist.nLog

\* Both threads have logged to the file, MaxLogCalls calls in all, and all of
\* them have returned.
C2_Witness ==
    /\ hist.initToFile /\ hist.initRet = "true" /\ hist.shutSince = 0
    /\ InFlight = {}
    /\ Cardinality(hist.sent) = MaxLogCalls
    /\ \A t \in Threads :
          \E l \in hist.sent : \E n \in 1..MaxLogCalls :
              l = FormatLine(LOG_ERROR, t, n, ShortLen, FALSE)

\* C3: the handle is valid exactly if the destination is the file, the most
\* recent Init returned success and UnInit has not been called since.
C3_HandleValidIff ==
    (m_iLogFile # InvalidFd) <=>
        (m_bToFile /\ hist.initRet = "true" /\ hist.shutSince = 0)

\* C4: every descriptor the logger has opened and not closed is the stored
\* handle, so at most one is open.
C4_NoLeakedHandle ==
    /\ OpenFds \subseteq {m_iLogFile}
    /\ Cardinality(OpenFds) <= 1

\* C5: a Log call made after a successful Init to a file and a later UnInit
\* returns false at once and writes nothing to the file, the storage or the
\* console.
C5_NoLogAfterShutdown ==
    [][\A t \in Threads :
          (/\ hist.initToFile /\ hist.initRet = "true" /\ hist.shutSince > 0
           /\ pc[t] = "idle" /\ pc'[t] # "idle")
          => /\ pc'[t] = "ret"
             /\ frame'[t].ret = FALSE
             /\ frame'[t].emitted = 0
             /\ UNCHANGED <<fileData, durable, console, fdtab>>]_vars

\* A call whose level passes the threshold has returned false, having written
\* nothing, from a file logger that was initialised and then shut down.
C5_Witness ==
    /\ hist.initToFile /\ hist.initRet = "true" /\ hist.shutSince > 0
    /\ Returned(1) /\ Passes(1) /\ ~frame[1].ret /\ frame[1].emitted = 0
    /\ m_bToFile /\ m_iLogFile = InvalidFd

\* C6: Init to a file with an absent or an empty file name returns false and
\* touches nothing in the file system: no directory made, no file made or opened.
C6_MissingNameNoIo ==
    [][\A bTruncateLongLog \in BOOLEAN, name \in {NullName, EmptyName} :
          SWLogInit(TRUE, bTruncateLongLog, name)
          => /\ hist'.initRet = "false"
             /\ UNCHANGED <<dirExists, fileExists, fileData, durable, fdtab>>]_vars

\* C7: when a Log call to the file has returned true, its complete line is in
\* the contents that have reached storage.
C7_DurableOnReturn ==
    \A t \in Threads :
        (Returned(t) /\ frame[t].ret /\ m_bToFile)
        => frame[t].strLogInfo \in Range(SplitLines(durable[LogName]))

\* C8: the file only grows at its end: every step leaves what each file held as
\* a prefix of what it holds, a write the device accepts adds exactly the
\* caller's line at the end, and nothing else changes a file.
C8_AppendOnly ==
    [][\A n \in FileNames :
          /\ IsPrefix(fileData[n], fileData'[n])
          /\ fileData'[n] # fileData[n] =>
                \E t \in Threads :
                    /\ pc[t] = "write" /\ pc'[t] = "sync"
                    /\ fileData'[n] = fileData[n] \o frame[t].strLogInfo
          /\ \A t \in Threads :
                (pc[t] = "write" /\ pc'[t] = "sync" /\ frame'[t].wres = "ok"
                 /\ fdtab[m_iLogFile].name = n)
                => fileData'[n] = fileData[n] \o frame[t].strLogInfo]_vars

\* The file holds what it held when the program started, then two lines of two
\* calls.
C8_Witness ==
    /\ hist.orig[LogName] = OldContent
    /\ Len(NewLines(LogName)) >= 2
    /\ IsPrefix(OldContent, fileData[LogName])

\* C9: a Log call whose write to the file failed on a valid handle returns
\* false and leaves the logger's configuration and handle as they were, and a
\* Log call to the file returns true only when its line was written.
C9_FailedWriteReturnsFalse ==
    [][\A t \in Threads :
          (pc[t] = "sync" /\ pc'[t] = "ret")
          => /\ frame[t].wres = "EIO" => (~frame'[t].ret /\ UNCHANGED swlog)
             /\ frame'[t].ret => frame[t].emitted = 1]_vars

\* C10: UnInit leaves the handle invalid and the logger in a state that a second
\* UnInit does not change; it closes the open handle once (no close when there
\* is none), and with an invalid handle it changes nothing.
C10_ShutdownIdempotent ==
    [][UnInit =>
          LET first == UnInitNext(m_iLogFile, fdtab, 0)
              second == UnInitNext(m_iLogFile', fdtab', first.closes)
          IN  /\ m_iLogFile' = InvalidFd
              /\ second = [handle |-> m_iLogFile', tab |-> fdtab', closes |-> first.closes]
              /\ first.closes = (IF m_iLogFile # InvalidFd THEN 1 ELSE 0)
              /\ m_iLogFile # InvalidFd => ~fdtab'[m_iLogFile].open
              /\ \A fd \in Fds \ {m_iLogFile} : fdtab'[fd] = fdtab[fd]
              /\ m_iLogFile = InvalidFd => UNCHANGED <<swlog, mut, filesys, console, pc, frame>>
              /\ UNCHANGED <<m_bToFile, m_bTruncateLongLog, m_nLogLevel, mut, dirExists,
                             fileExists, fileData, durable, console, pc, frame>>]_vars

\* UnInit has been called twice in a row after a successful Init to a file: the
\* handle is invalid and no descriptor is open.
C10_Witness ==
    /\ hist.initToFile /\ hist.initRet = "true" /\ hist.shutSince = 2
    /\ m_iLogFile = InvalidFd /\ OpenFds = {}

\* C11: Init to the console returns true from every state and with every file
\* name argument (the absent one too), leaves the destination at the console and
\* the truncate flag at the value given, and touches nothing in the file system.
C11_ConsoleInit ==
    [][\A bTruncateLongLog \in BOOLEAN, name \in NameArgs :
          SWLogInit(FALSE, bTruncateLongLog, name)
          => /\ hist'.initRet = "true"
             /\ m_bToFile' = FALSE
             /\ m_bTruncateLongLog' = bTruncateLongLog
             /\ UNCHANGED <<dirExists, fileExists, fileData, durable, fdtab>>]_vars

\* Init to the console with no file name and the truncate flag set has returned
\* true where the Log directory does not exist, and it still does not.
C11_Witness ==
    /\ ~hist.initToFile /\ hist.initName = NullName /\ hist.initRet = "true"
    /\ ~m_bToFile /\ m_bTruncateLongLog
    /\ ~dirExists /\ OpenFds = {}

Min(a, b) == IF a < b THEN a ELSE b
Last(s) == s[Len(s)]

\* The line a returned call of the only logging thread has put in its sink.
EmittedLine == IF m_bToFile THEN Last(LinesOf(LogName)) ELSE Last(ConsoleLines)

\* C12: every emitted line is the whole header, then the body, then CRLF; the
\* body is a prefix of the formatted message, of min(length, MAX_LINE_LENGTH)
\* characters when the truncate flag is set and of the message's length when it
\* is not.
C12_BodyClipped ==
    (Returned(1) /\ frame[1].emitted = 1) =>
        LET f == frame[1]
            line == EmittedLine
            hdr == Header(f.nLevel, 1, f.nLineNo)
            body == SubSeq(line, Len(hdr) + 1, Len(line) - 1)
        IN  /\ Len(line) >= Len(hdr) + 1
            /\ SubSeq(line, 1, Len(hdr)) = hdr
            /\ Last(line) = CRLF
            /\ IsPrefix(body, format_string(f.fmtLen))
            /\ Len(body) = IF m_bTruncateLongLog
                           THEN Min(f.fmtLen, MAX_LINE_LENGTH)
                           ELSE f.fmtLen

\* A message of LongLen characters has been logged to the file with the
\* truncate flag set: its line holds the header, MAX_LINE_LENGTH characters and
\* the CRLF.
C12_Witness ==
    /\ Returned(1) /\ frame[1].emitted = 1 /\ frame[1].fmtLen = LongLen
    /\ m_bTruncateLongLog /\ m_bToFile
    /\ Len(EmittedLine) = Len(Header(frame[1].nLevel, 1, frame[1].nLineNo))
                          + MAX_LINE_LENGTH + 1

Emitting == {t \in Threads : pc[t] \in {"seek", "write", "sync", "print"}}

\* The lines of hist.locked that occur in the sequence of lines s, in the
\* order in which their calls took the mutex.
LockOrder(s) ==
    LET InSink(l) == l \in Range(s)
    IN  SelectSeq(hist.locked, InSink)

\* C14: at most one thread is inside the emission step (printf, or lseek, write
\* and fsync), it is the owner of the mutex, and the lines the file has gained
\* and the lines on the console stand in the order in which their calls took
\* the mutex.
C14_SerialisedInLockOrder ==
    /\ Cardinality(Emitting) <= 1
    /\ \A t \in Emitting : mut = t
    /\ NewLines(LogName) = LockOrder(NewLines(LogName))
    /\ ConsoleLines = LockOrder(ConsoleLines)

\* Two calls have written to the file; the call made second took the mutex
\* first, and its line stands first in the file.
C14_Witness ==
    /\ Len(hist.locked) = 2
    /\ NewLines(LogName) = hist.locked
    /\ \E t \in Threads :
          hist.locked[1] = FormatLine(LOG_ERROR, t, 2, ShortLen, FALSE)

\* C15: no Log call seeks, writes or syncs on a handle that UnInit has closed:
\* a thread between the lseek and the end of the fsync works on an open
\* descriptor, and no call that returns has had EBADF from write or fsync.
C15_NoUseAfterClose ==
    \A t \in Threads :
        /\ pc[t] \in {"seek", "write", "sync"} => m_iLogFile \in OpenFds
        /\ Returned(t) => (frame[t].wres # "EBADF" /\ frame[t].sres # "EBADF")

\* C16: a Log call whose level is at or below the threshold does nothing: it
\* goes straight to its return with the result false, has formatted no line,
\* does not take the mutex, and leaves the logger, the file system and the
\* console as they were.
C16_FilteredNoOp ==
    [][\A t \in Threads :
          (pc[t] = "idle" /\ pc'[t] # "idle" /\ frame'[t].nLevel <= m_nLogLevel)
          => /\ pc'[t] = "ret"
             /\ ~frame'[t].ret
             /\ frame'[t].strLogInfo = <<>>
             /\ frame'[t].emitted = 0
             /\ UNCHANGED <<swlog, mut, filesys, console>>]_vars

\* A call at LOG_WARNING has been dropped under the threshold LOG_INFO while
\* the logger had an open file: the file holds what it held at the start.
C16_Witness ==
    /\ Returned(1) /\ frame[1].nLevel = LOG_WARNING /\ m_nLogLevel = LOG_INFO
    /\ ~frame[1].ret /\ frame[1].strLogInfo = <<>>
    /\ m_bToFile /\ m_iLogFile \in OpenFds
    /\ fileData[LogName] = hist.orig[LogName]
    /\ mut = 0

\* C17: an Init to a file that returns false leaves the destination, the
\* truncate flag and the stored handle as they were.
C17_FailedInitKeepsState ==
    [][\A bTruncateLongLog \in BOOLEAN, name \in NameArgs :
          (SWLogInit(TRUE, bTruncateLongLog, name) /\ hist'.initRet = "false")
          => UNCHANGED <<m_bToFile, m_bTruncateLongLog, m_iLogFile>>]_vars

\* C18: no step of a Log call changes the destination, the truncate flag, the
\* threshold or the handle, and UnInit changes none of the destination, the
\* truncate flag and the threshold: after UnInit on a file logger the
\* destination is still the file.
C18_ConfigStable ==
    [][/\ (\E t \in Threads : pc'[t] # pc[t]) => UNCHANGED swlog
       /\ UnInit => UNCHANGED <<m_bToFile, m_bTruncateLongLog, m_nLogLevel>>]_vars

\* A Log call has written its line through the handle of a file logger with
\* the truncate flag set, and UnInit has closed the handle since: destination
\* and flag are as Init left them.
C18_Witness ==
    /\ hist.initToFile /\ hist.initRet = "true" /\ hist.shutSince > 0
    /\ m_bToFile /\ m_bTruncateLongLog /\ m_iLogFile = InvalidFd
    /\ hist.sent # {}
    /\ Len(NewLines(LogName)) = 1

\* C19: every Log call that has begun reaches its return, the mutex is owned
\* only by a thread inside the emission step, and so is free whenever no thread
\* is there.
C19_LogReturns ==
    /\ \A t \in Threads : (pc[t] # "idle") ~> (pc[t] = "ret")
    /\ [](mut # 0 => mut \in Emitting)

\* One thread waits for the mutex while the other, its owner, is about to
\* sync and leave the locked block.
C19_Witness ==
    \E t \in Threads, u \in Threads :
        /\ t # u
        /\ pc[t] = "lockF" /\ pc[u] = "sync" /\ mut = u
        /\ m_iLogFile \in OpenFds

====
